---- MODULE Spec2Model ----
(***************************************************************************)
(* State-machine model of src/app.js: the templates, the particle field   *)
(* (createParticles, updateParticles), the gesture classifier              *)
(* (detectGesture), the gesture reducer (onHandResults), the UI handlers   *)
(* and setupHandTracking.                                                  *)
(*                                                                         *)
(* Fixed-point units.  expansion and colorShift are kept in hundredths     *)
(* (1.0 is 100, the steps 0.02 and 0.01 are 2 and 1); particles.rotation.y *)
(* is kept in hundredths of a radian (one tick adds rotation * 0.01).      *)
(* JavaScript array index j is TLA+ sequence index j + 1.                  *)
(***************************************************************************)
EXTENDS Integers, Sequences, FiniteSets, TLC

VARIABLES
    gestureState,     \* app.js:28  [expansion, rotation, colorShift, detected]
    particleCount,    \* app.js:23
    currentTemplate,  \* app.js:24
    baseColor,        \* app.js:25
    particles,        \* app.js:22  the THREE.Points object [id, rotationY]
    particleGeometry, \* app.js:22  the BufferGeometry [attrs, position, color, size]
    scene,            \* app.js:5   ids of the objects added to the scene
    statusText,       \* app.js:38  statusElement.textContent
    loadingText,      \* app.js:39  loadingElement text / display
    pcSetup,          \* position of the async function setupHandTracking
    results,          \* argument of the latest onHandResults call
    uncaught          \* exception that escaped the latest handler, or "none"

vars == <<gestureState, particleCount, currentTemplate, baseColor, particles,
          particleGeometry, scene, statusText, loadingText, pcSetup, results,
          uncaught>>

fieldVars == <<particleCount, currentTemplate, baseColor, particles,
               particleGeometry, scene>>

-----------------------------------------------------------------------------
(* Bounds of the model *)

InitialCount == 1     \* stands for the initial particleCount (10000 in app.js:23)
MaxCount == 2         \* the count slider delivers 1..MaxCount
MaxRotation == 2      \* point gestures are delivered while rotation < MaxRotation
MaxAngle == 2         \* ticks are taken while rotation.y stays <= MaxAngle
MaxCoord == 1         \* landmark coordinates range over 0..MaxCoord
MaxTotal == 9         \* the generators are run for counts 1..MaxTotal
MaxDrawn == 2         \* the first MaxDrawn generator calls draw freely

-----------------------------------------------------------------------------
(* Program constants *)

ExpansionInit == 100  \* expansion: 1.0
ExpansionStep == 2    \* 0.02
ExpansionMax == 200   \* 2.0
ExpansionMin == 30    \* 0.3
ColorShiftStep == 1   \* 0.01
ColorShiftModulus == 100  \* % 1
LandmarkCount == 21   \* highest index read by detectGesture is 20
MaxNumHands == 2      \* maxNumHands: 2
BurstCount == 8       \* const burstCount = 8

Templates == {"sphere", "heart", "flower", "saturn", "fireworks", "spiral",
              "cube", "wave"}

Min(a, b) == IF a < b THEN a ELSE b
Max(a, b) == IF a > b THEN a ELSE b

initialGestureState ==
    [expansion |-> ExpansionInit, rotation |-> 0, colorShift |-> 0,
     detected |-> "none"]

-----------------------------------------------------------------------------
(* templates: the arithmetic of templates[id](i, total) that decides       *)
(* whether a position is finite and where the flower, fireworks and cube   *)
(* layouts put a particle.  Lengths are in hundredths; trigonometric       *)
(* values are not computed.                                                *)

\* The largest s in lo..hi with s^k <= n, for k = 2 or 3.
RECURSIVE RootSearch(_, _, _, _)
RootSearch(k, n, lo, hi) ==
    IF lo >= hi
    THEN lo
    ELSE LET mid == (lo + hi + 1) \div 2
             pow == IF k = 2 THEN mid * mid ELSE mid * mid * mid
         IN  IF pow <= n
             THEN RootSearch(k, n, mid, hi)
             ELSE RootSearch(k, n, lo, mid - 1)

\* Math.cbrt(total) and Math.sqrt(total) in hundredths, rounded down,
\* tabulated for the counts 1..MaxTotal.
CubeRoots == [total \in 1..MaxTotal |-> RootSearch(3, total * 1000000, 0, 100 * total)]
SquareRoots == [total \in 1..MaxTotal |-> RootSearch(2, total * 10000, 0, 100 * total)]

Cbrt(total) == CubeRoots[total]
Sqrt(total) == SquareRoots[total]

\* The argument -1 + (2 * a) / b of Math.acos as the fraction <<num, den>>;
\* a and b are given in a common unit.
AcosArg(a, b) == <<2 * a - b, b>>

\* Math.acos yields a number (not NaN) for the fraction arg.
InDomain(arg) ==
    /\ arg[2] # 0
    /\ IF arg[2] > 0
       THEN -arg[2] <= arg[1] /\ arg[1] <= arg[2]
       ELSE arg[2] <= arg[1] /\ arg[1] <= -arg[2]

\* flower: Math.floor(i / (total / 5))
FlowerLayer(i, total) == (5 * i) \div total

\* flower: (layer - 2.5) * 1.5
FlowerHeight(i, total) == (2 * FlowerLayer(i, total) - 5) * 75

\* saturn: ringParticles = total * 0.6, in fifths of a particle.
RingParticles(total) == 3 * total

\* saturn: i < ringParticles
InRing(i, total) == 5 * i < RingParticles(total)

\* Faulty variant of PlanetAcosArg: the ring particles are not subtracted
\* from the index.
PlanetAcosArgWholeIndex(i, total) ==
    AcosArg(5 * i, 5 * total - RingParticles(total))

\* saturn: -1 + (2 * (i - ringParticles)) / (total - ringParticles)
PlanetAcosArg(i, total) ==
    AcosArg(5 * i - RingParticles(total), 5 * total - RingParticles(total))

\* fireworks: particlesPerBurst = total / burstCount, in units of
\* 1/burstCount of a particle.
ParticlesPerBurst(total) == total

\* fireworks: Math.floor(i / particlesPerBurst)
BurstIndex(i, total) == (BurstCount * i) \div ParticlesPerBurst(total)

\* fireworks: i % particlesPerBurst, in units of 1/burstCount of a particle.
ParticleInBurst(i, total) == (BurstCount * i) % ParticlesPerBurst(total)

\* fireworks: (Math.random() - 0.5) * 4 for the draw of this call.
BurstCenterY(draw) == (draw - 50) * 4

\* cube: side = Math.cbrt(total)
CubeSide(total) == Cbrt(total)

\* cube: i % side, Math.floor(i / side) % side, Math.floor(i / (side * side)),
\* the grid coordinates before centering and spacing.
CubeCell(i, total) ==
    LET side == CubeSide(total)
    IN  <<(100 * i) % side,
          (100 * ((100 * i) \div side)) % side,
          100 * ((10000 * i) \div (side * side))>>

\* templates[func](i, total) is a vector of three finite numbers: every
\* number it divides or takes a remainder by is not zero (literals are left
\* out), and every argument it passes to Math.acos lies in [-1, 1].
Finite(func, i, total) ==
    CASE func = "sphere" -> InDomain(AcosArg(i, total))
      [] func = "saturn" ->
            IF InRing(i, total)
            THEN RingParticles(total) # 0
            ELSE InDomain(PlanetAcosArg(i, total))
      [] func = "fireworks" ->
            /\ BurstCount # 0
            /\ ParticlesPerBurst(total) # 0
            /\ InDomain(AcosArg(ParticleInBurst(i, total),
                                ParticlesPerBurst(total)))
      [] func = "cube" -> CubeSide(total) # 0
      [] func = "wave" -> Sqrt(total) # 0
      [] OTHER -> total # 0

\* Math.random() in hundredths: a draw from the lower and one from the
\* upper half of [0, 1).
Draws == {0, 50}

\* What the flower, fireworks and cube layouts compute a position from;
\* draw is the Math.random() of this call of the fireworks generator.
Parts(func, i, total, draw) ==
    CASE func = "flower" ->
            [layer |-> FlowerLayer(i, total), height |-> FlowerHeight(i, total)]
      [] func = "fireworks" ->
            [burstIndex |-> BurstIndex(i, total), centerY |-> BurstCenterY(draw)]
      [] func = "cube" ->
            [side |-> CubeSide(total), cell |-> CubeCell(i, total)]
      [] OTHER -> [symbolic |-> TRUE]

-----------------------------------------------------------------------------
(* Particle field: createParticles *)

\* Faulty variant of TemplateLookup: an unknown id falls back to the sphere.
TemplateLookupFallback(tpl) == IF tpl \in Templates THEN tpl ELSE "sphere"

\* templates[currentTemplate]: the generator, or "undefined" for an id that
\* is no key of the registry.  A generator is named by its template id.
TemplateLookup(tpl) == IF tpl \in Templates THEN tpl ELSE "undefined"

\* The draws of Math.random() that decide a position, one per call of the
\* generator: the height of the fireworks burst center.  (The two draws of
\* a saturn ring particle and the size draws relate no two particles and
\* stay symbolic.)  Calls after the first MaxDrawn get the lower draw.
RandomDraws(tpl, total) ==
    IF tpl = "fireworks"
    THEN {[i \in 0..(total - 1) |-> IF i < MaxDrawn THEN first[i] ELSE 0] :
             first \in [0..(MaxDrawn - 1) -> Draws]}
    ELSE {[i \in 0..(total - 1) |-> 0]}

\* The position buffer after the fill loop: entry 3i+axis holds component
\* axis of templateFunc(i, total).  The number itself is left symbolic:
\* finite tells whether it is a number, parts what it was computed from,
\* drift whether updateParticles has added its oscillation to it.
PositionBuffer(func, total, rnd) ==
    [k \in 1..(total * 3) |->
        LET i == (k - 1) \div 3
        IN  [by |-> func, i |-> i, total |-> total,
             axis |-> (k - 1) % 3, drift |-> FALSE,
             finite |-> Finite(func, i, total),
             parts |-> Parts(func, i, total, rnd[i])]]

\* The color buffer after the fill loop: baseColor.clone().offsetHSL(i/total*0.1).
ColorBuffer(color, total) ==
    [k \in 1..(total * 3) |->
        [by |-> "offsetHSL", base |-> color, i |-> (k - 1) \div 3,
         total |-> total, ch |-> (k - 1) % 3]]

\* The size buffer: one Math.random() * 2 + 1 per particle, left symbolic.
SizeBuffer(total) ==
    [k \in 1..total |-> [by |-> "random", i |-> k - 1]]

\* new THREE.BufferGeometry(): no attribute is set yet.
emptyGeometry ==
    [attrs |-> FALSE, position |-> <<>>, color |-> <<>>, size |-> <<>>]

noParticles == [id |-> 0, rotationY |-> 0]

\* The identity of a new THREE.Points: an id no object of the scene has.
NewId(sc) == IF 1 \in sc THEN 2 ELSE 1

\* Faulty variant of SceneAfterRemove: the old object stays in the scene.
SceneAfterRemoveKept(sc, p) == sc

\* scene.remove(particles) when particles is set (lines 154-158).
SceneAfterRemove(sc, p) == IF p.id # 0 THEN sc \ {p.id} ELSE sc

\* createParticles() as a function of the globals it reads and the random
\* draws rnd of its generator calls; yields the globals it writes and whether a TypeError escaped (a call of undefined
\* at line 168, reached only when the loop body runs).
createParticles(p, sc, tpl, count, color, rnd) ==
    LET removed == SceneAfterRemove(sc, p)
        id == NewId(removed)
        func == TemplateLookup(tpl)
    IN  IF count >= 1 /\ func = "undefined"
        THEN [particles |-> p, particleGeometry |-> emptyGeometry,
              scene |-> removed, uncaught |-> "TypeError"]
        ELSE [particles |-> [id |-> id, rotationY |-> 0],
              particleGeometry |->
                  [attrs |-> TRUE,
                   position |-> PositionBuffer(func, count, rnd),
                   color |-> ColorBuffer(color, count),
                   size |-> SizeBuffer(count)],
              scene |-> removed \cup {id}, uncaught |-> "none"]

-----------------------------------------------------------------------------
(* Particle field: updateParticles *)

\* What the loop of lines 209-223 leaves in the color buffer: setHSL of
\* (colorShift + i/particleCount*0.1) % 1 for every i < count; a write past
\* the end of a typed array is dropped.  The hue value is left symbolic.
ColorsAfterUpdate(colors, count) ==
    [k \in 1..Len(colors) |->
        IF (k - 1) \div 3 < count
        THEN [by |-> "setHSL", i |-> (k - 1) \div 3, total |-> count,
              ch |-> (k - 1) % 3]
        ELSE colors[k]]

\* positions[i*3+1] += sin(time + i*0.1) * 0.002 for every i < count.
PositionsAfterUpdate(positions, count) ==
    [k \in 1..Len(positions) |->
        IF (k - 1) \div 3 < count /\ (k - 1) % 3 = 1
        THEN [positions[k] EXCEPT !.drift = TRUE]
        ELSE positions[k]]

\* Faulty variant of Turned: the angle is set, not accumulated.
TurnedTo(p, gs) == [p EXCEPT !.rotationY = gs.rotation]

\* particles.rotation.y += gestureState.rotation * 0.01 (line 204)
Turned(p, gs) == [p EXCEPT !.rotationY = @ + gs.rotation]

\* updateParticles() as a function of the globals it reads.  Reading
\* .array of a missing attribute (line 206) is a TypeError, raised after
\* lines 203-204 have run.
updateParticles(p, g, gs, count) ==
    IF p.id = 0
    THEN [particles |-> p, particleGeometry |-> g, uncaught |-> "none"]
    ELSE LET turned == Turned(p, gs)
         IN  IF ~g.attrs
             THEN [particles |-> turned, particleGeometry |-> g,
                   uncaught |-> "TypeError"]
             ELSE [particles |-> turned,
                   particleGeometry |->
                       [g EXCEPT !.color = ColorsAfterUpdate(g.color, count),
                                 !.position = PositionsAfterUpdate(g.position, count)],
                   uncaught |-> "none"]

-----------------------------------------------------------------------------
(* Gesture classifier: detectGesture *)

\* landmarks[j] of JavaScript
At(landmarks, j) == landmarks[j + 1]

\* The indices detectGesture reads (lines 280, 284, 285); reading .x or .y
\* of an index past the end of the array is a TypeError.
ReadIndices == {4, 3} \cup {8 + i * 4 : i \in 0..3} \cup {6 + i * 4 : i \in 0..3}

\* fingers[] after line 287; JavaScript fingers[k] is Fingers(..)[k + 1].
Fingers(landmarks) ==
    <<At(landmarks, 4).x < At(landmarks, 3).x>> \o
    [i \in 1..4 |->
        At(landmarks, 8 + (i - 1) * 4).y < At(landmarks, 6 + (i - 1) * 4).y]

\* Faulty variant of Label: any single extended finger is a point.
LabelIgnoringIndex(fingers) ==
    LET extendedCount == Cardinality({k \in 1..5 : fingers[k]})
    IN  IF extendedCount = 5 THEN "open_hand"
        ELSE IF extendedCount = 0 THEN "fist"
        ELSE IF extendedCount = 1 THEN "point"
        ELSE IF extendedCount = 2 /\ fingers[2] /\ fingers[3] THEN "peace"
        ELSE "unknown"

\* The label of lines 289-296 for a fingers array.
Label(fingers) ==
    LET extendedCount == Cardinality({k \in 1..5 : fingers[k]})
    IN  IF extendedCount = 5 THEN "open_hand"
        ELSE IF extendedCount = 0 THEN "fist"
        ELSE IF extendedCount = 1 /\ fingers[2] THEN "point"
        ELSE IF extendedCount = 2 /\ fingers[2] /\ fingers[3] THEN "peace"
        ELSE "unknown"

\* detectGesture(landmarks): the label, or "TypeError" when it throws.
detectGesture(landmarks) ==
    IF \E j \in ReadIndices : j >= Len(landmarks)
    THEN "TypeError"
    ELSE Label(Fingers(landmarks))

-----------------------------------------------------------------------------
(* Gesture reducer: onHandResults *)

\* Faulty variant of Expand: the clamp stops one step below the ceiling.
ExpandStopsShort(expansion) ==
    Min(expansion + ExpansionStep, ExpansionMax - ExpansionStep)

\* Faulty variant of Expand: the ceiling is not applied.
ExpandUnclamped(expansion) == expansion + ExpansionStep

\* Math.min(expansion + 0.02, 2.0)
Expand(expansion) == Min(expansion + ExpansionStep, ExpansionMax)

\* Faulty variant of Contract: a fist takes two steps at once.
ContractTwoSteps(expansion) == Max(expansion - 2 * ExpansionStep, ExpansionMin)

\* Math.max(expansion - 0.02, 0.3)
Contract(expansion) == Max(expansion - ExpansionStep, ExpansionMin)

\* (colorShift + 0.01) % 1
ShiftColor(colorShift) == (colorShift + ColorShiftStep) % ColorShiftModulus

\* A frame with a hand: results.multiHandLandmarks is set and not empty.
HasHand(r) == Len(r.multiHandLandmarks) > 0

\* Faulty variant of FirstHand: the hand detected last is consulted.
LastHand(r) == r.multiHandLandmarks[Len(r.multiHandLandmarks)]

\* results.multiHandLandmarks[0] (line 302)
FirstHand(r) == r.multiHandLandmarks[1]

\* onHandResults(results) as a function of the globals it reads; yields the
\* globals it writes and whether a TypeError escaped from detectGesture.
onHandResults(gs, status, r) ==
    IF HasHand(r)
    THEN LET landmarks == FirstHand(r)
             gesture == detectGesture(landmarks)
             seen == [gs EXCEPT !.detected = gesture]
         IN  CASE gesture = "TypeError" ->
                    [gestureState |-> gs, statusText |-> status,
                     uncaught |-> "TypeError"]
               [] gesture = "open_hand" ->
                    [gestureState |-> [seen EXCEPT !.expansion = Expand(@)],
                     statusText |-> "Expanding", uncaught |-> "none"]
               [] gesture = "fist" ->
                    [gestureState |-> [seen EXCEPT !.expansion = Contract(@)],
                     statusText |-> "Contracting", uncaught |-> "none"]
               [] gesture = "point" ->
                    [gestureState |-> [seen EXCEPT !.rotation = @ + 1],
                     statusText |-> "Rotating", uncaught |-> "none"]
               [] gesture = "peace" ->
                    [gestureState |-> [seen EXCEPT !.colorShift = ShiftColor(@)],
                     statusText |-> "Color Shifting", uncaught |-> "none"]
               [] OTHER ->
                    [gestureState |-> seen, statusText |-> "Hand detected",
                     uncaught |-> "none"]
    ELSE [gestureState |-> gs, statusText |-> "No hands detected",
          uncaught |-> "none"]

-----------------------------------------------------------------------------
(* Inputs: the frames the hand tracker delivers, the values the UI delivers *)

\* A hand of n landmarks showing the extension vector ext (thumb, index,
\* middle, ring, pinky): an extended thumb has its tip left of its IP joint,
\* an extended finger has its tip above its PIP joint; all else at (1, 1).
Hand(ext, n) ==
    [k \in 1..n |->
        LET j == k - 1
        IN  [x |-> IF j = 4 /\ ext[1] THEN 0 ELSE 1,
             y |-> IF \E i \in 0..3 : j = 8 + i * 4 /\ ext[i + 2] THEN 0 ELSE 1]]

OpenHandPose == <<TRUE, TRUE, TRUE, TRUE, TRUE>>
FistPose == <<FALSE, FALSE, FALSE, FALSE, FALSE>>
PointPose == <<FALSE, TRUE, FALSE, FALSE, FALSE>>
PeacePose == <<FALSE, TRUE, TRUE, FALSE, FALSE>>
ThumbPinkyPose == <<TRUE, FALSE, FALSE, FALSE, TRUE>>
MiddleOnlyPose == <<FALSE, FALSE, TRUE, FALSE, FALSE>>

Frame(hands) == [multiHandLandmarks |-> hands]

NoHandFrame == Frame(<<>>)

\* The frames that move expansion and colorShift, an unnamed pose and the
\* no-hand frame.  (Point frames, which move rotation, are in FieldFrames:
\* the product of all three accumulators is too large to enumerate.)
GestureFrames ==
    {NoHandFrame} \cup
    {Frame(<<Hand(pose, LandmarkCount)>>) :
        pose \in {OpenHandPose, FistPose, PeacePose, ThumbPinkyPose}}

\* One frame for each label the reducer tells apart, and the no-hand frame.
ReduceFrames ==
    {NoHandFrame} \cup
    {Frame(<<Hand(pose, LandmarkCount)>>) :
        pose \in {OpenHandPose, FistPose, PointPose, PeacePose, ThumbPinkyPose}}

\* The frames that bear on rotation: a point, and a fist, an unnamed pose
\* and the no-hand frame, which are to leave it alone.
RotateFrames ==
    {NoHandFrame} \cup
    {Frame(<<Hand(pose, LandmarkCount)>>) :
        pose \in {PointPose, FistPose, ThumbPinkyPose}}

\* Frames that leave expansion and colorShift alone: no hand, an unnamed
\* pose, a point, two hands, and hands of fewer than 21 landmarks.
FieldFrames ==
    {NoHandFrame,
     Frame(<<Hand(MiddleOnlyPose, LandmarkCount)>>),
     Frame(<<Hand(PointPose, LandmarkCount)>>),
     Frame(<<Hand(PointPose, LandmarkCount), Hand(OpenHandPose, LandmarkCount)>>),
     Frame(<<Hand(OpenHandPose, LandmarkCount - 1)>>),
     Frame(<<Hand(PeacePose, 5)>>),
     Frame(<<Hand(FistPose, 0)>>)}

\* The hands the tracker may report after the first one: at most
\* MaxNumHands hands come in one frame.
OtherHands ==
    {Hand(pose, LandmarkCount) :
        pose \in {OpenHandPose, FistPose, PointPose, PeacePose, ThumbPinkyPose,
                  MiddleOnlyPose}} \cup
    {Hand(OpenHandPose, LandmarkCount - 1)}

ExtraHands == UNION {[1..n -> OtherHands] : n \in 0..(MaxNumHands - 1)}

\* Every 21-point hand whose ten coordinates read by detectGesture range
\* over 0..MaxCoord (the others stay at 0).
Coord == 0..MaxCoord

ClassifyFrames ==
    {Frame(<<[k \in 1..LandmarkCount |->
                [x |-> IF k - 1 = 4 THEN tx[1] ELSE IF k - 1 = 3 THEN tx[2] ELSE 0,
                 y |-> IF \E i \in 0..3 : k - 1 = 8 + i * 4
                       THEN tips[(k - 1 - 8) \div 4 + 1]
                       ELSE IF \E i \in 0..3 : k - 1 = 6 + i * 4
                            THEN pips[(k - 1 - 6) \div 4 + 1]
                            ELSE 0]]>>) :
        tx \in [1..2 -> Coord], tips \in [1..4 -> Coord], pips \in [1..4 -> Coord]}

Colors == {"00ffff", "ffffff", "ff0000"}
defaultColor == "00ffff"
Counts == 1..MaxCount
unregisteredTemplate == "torus"
TemplateIds == Templates \cup {unregisteredTemplate}

-----------------------------------------------------------------------------
(* Initial state: the script has run to its end (lines 1-372) *)

Constructed ==
    LET made == CHOOSE m \in
                    {createParticles(noParticles, {}, "sphere", InitialCount,
                                     defaultColor, rnd) :
                        rnd \in RandomDraws("sphere", InitialCount)} : TRUE
        drawn == updateParticles(made.particles, made.particleGeometry,
                                 initialGestureState, InitialCount)
    IN  /\ gestureState = initialGestureState
        /\ particleCount = InitialCount
        /\ currentTemplate = "sphere"
        /\ baseColor = defaultColor
        /\ particles = drawn.particles
        /\ particleGeometry = drawn.particleGeometry
        /\ scene = made.scene
        /\ statusText = "initial"
        /\ loadingText = "initial"
        /\ pcSetup = "getUserMedia"
        /\ uncaught = "none"

\* No frame has been delivered yet.
Init == Constructed /\ results = NoHandFrame

-----------------------------------------------------------------------------
(* setupHandTracking *)

\* await navigator.mediaDevices.getUserMedia resolves (lines 247-248)
StreamResolved ==
    /\ pcSetup = "getUserMedia"
    /\ pcSetup' = "loadedmetadata"
    /\ uncaught' = "none"
    /\ UNCHANGED <<gestureState, fieldVars, statusText, loadingText, results>>

\* The catch clause of lines 268-272: the function ends, nothing is retried.
Caught ==
    /\ pcSetup' = "failed"
    /\ loadingText' = "Camera access denied"
    /\ statusText' = "Using mouse controls"
    /\ uncaught' = "none"
    /\ UNCHANGED <<gestureState, fieldVars, results>>

\* await getUserMedia rejects
StreamRejected ==
    /\ pcSetup = "getUserMedia"
    /\ Caught

\* onloadedmetadata fires; play, new Camera and camera.start succeed
\* (lines 250-267)
CameraStarted ==
    /\ pcSetup = "loadedmetadata"
    /\ pcSetup' = "active"
    /\ loadingText' = "hidden"
    /\ statusText' = "Hand tracking active"
    /\ uncaught' = "none"
    /\ UNCHANGED <<gestureState, fieldVars, results>>

\* onloadedmetadata fires; new Camera or camera.start throws (lines 257-265)
CameraFailed ==
    /\ pcSetup = "loadedmetadata"
    /\ Caught

\* Faulty variant of FramesFlow: frames are sent after a failed setup too.
FramesFlowAlways == pcSetup \in {"active", "failed"}

\* hands.send, and with it the onResults callback, runs only from the
\* onFrame of a started Camera (lines 257-265).
FramesFlow == pcSetup = "active"

-----------------------------------------------------------------------------
(* Handlers *)

\* The hand-tracking callback with frame r.
HandResults(r) ==
    /\ FramesFlow
    /\ LET out == onHandResults(gestureState, statusText, r)
       IN  /\ out.gestureState.rotation <= MaxRotation
           /\ gestureState' = out.gestureState
           /\ statusText' = out.statusText
           /\ uncaught' = out.uncaught
    /\ results' = r
    /\ UNCHANGED <<fieldVars, loadingText, pcSetup>>

\* The globals after createParticles() has run with template tpl, count
\* and color as the current configuration.
Regenerate(tpl, count, color) ==
    \E out \in {createParticles(particles, scene, tpl, count, color, rnd) :
                   rnd \in RandomDraws(tpl, count)} :
        /\ particles' = out.particles
        /\ particleGeometry' = out.particleGeometry
        /\ scene' = out.scene
        /\ uncaught' = out.uncaught

\* 'change' on #template-select (lines 332-335)
TemplateChange(t) ==
    /\ currentTemplate' = t
    /\ Regenerate(t, particleCount, baseColor)
    /\ UNCHANGED <<gestureState, particleCount, baseColor, statusText,
                   loadingText, pcSetup, results>>

\* Faulty variant of CountInput: the field is not regenerated.
CountInputNoRegenerate(n) ==
    /\ particleCount' = n
    /\ uncaught' = "none"
    /\ UNCHANGED <<gestureState, currentTemplate, baseColor, particles,
                   particleGeometry, scene, statusText, loadingText, pcSetup,
                   results>>

\* 'input' on #particle-count (lines 337-341)
CountInput(n) ==
    /\ particleCount' = n
    /\ Regenerate(currentTemplate, n, baseColor)
    /\ UNCHANGED <<gestureState, currentTemplate, baseColor, statusText,
                   loadingText, pcSetup, results>>

\* 'input' on #color-picker (lines 343-346)
ColorInput(c) ==
    /\ baseColor' = c
    /\ Regenerate(currentTemplate, particleCount, c)
    /\ UNCHANGED <<gestureState, particleCount, currentTemplate, statusText,
                   loadingText, pcSetup, results>>

\* Faulty variant of ResetClick: colorShift survives the reset.
ResetKeepsColorShift ==
    /\ gestureState' = [initialGestureState EXCEPT
                            !.colorShift = gestureState.colorShift]
    /\ uncaught' = "none"
    /\ UNCHANGED <<fieldVars, statusText, loadingText, pcSetup, results>>

\* 'click' on #reset-btn (lines 348-352); the camera is not modelled.
ResetClick ==
    /\ gestureState' = initialGestureState
    /\ uncaught' = "none"
    /\ UNCHANGED <<fieldVars, statusText, loadingText, pcSetup, results>>

\* Faulty variant of Tick: the tick consumes the rotation it has applied.
TickConsumesRotation ==
    LET out == updateParticles(particles, particleGeometry, gestureState,
                               particleCount)
    IN  /\ out.particles.rotationY <= MaxAngle
        /\ particles' = out.particles
        /\ particleGeometry' = out.particleGeometry
        /\ uncaught' = out.uncaught
        /\ gestureState' = [gestureState EXCEPT !.rotation = 0]
        /\ UNCHANGED <<particleCount, currentTemplate, baseColor, scene,
                       statusText, loadingText, pcSetup, results>>

\* One run of animate() (lines 355-360): the next frame is requested first,
\* so a throwing updateParticles does not stop the loop.  particles.scale
\* (line 203) is not modelled.
Tick ==
    LET out == updateParticles(particles, particleGeometry, gestureState,
                               particleCount)
    IN  /\ out.particles.rotationY <= MaxAngle
        /\ particles' = out.particles
        /\ particleGeometry' = out.particleGeometry
        /\ uncaught' = out.uncaught
        /\ UNCHANGED <<gestureState, particleCount, currentTemplate, baseColor,
                       scene, statusText, loadingText, pcSetup, results>>

-----------------------------------------------------------------------------
(* Specifications *)

Setup == StreamResolved \/ StreamRejected \/ CameraStarted \/ CameraFailed

\* The application with the UI's full range of templates, counts and colors
\* and the frames of FieldFrames.
Next ==
    \/ Setup
    \/ \E r \in FieldFrames : HandResults(r)
    \/ \E t \in Templates : TemplateChange(t)
    \/ \E n \in Counts : CountInput(n)
    \/ \E c \in Colors : ColorInput(c)
    \/ ResetClick
    \/ Tick

Spec == Init /\ [][Next]_vars

\* The application with a frame of every label and a UI that re-selects
\* the default configuration.
NextGesture ==
    \/ Setup
    \/ \E r \in GestureFrames : HandResults(r)
    \/ TemplateChange("sphere")
    \/ CountInput(InitialCount)
    \/ ColorInput(defaultColor)
    \/ ResetClick
    \/ Tick

SpecGesture == Init /\ [][NextGesture]_vars

\* The application with a template select that can also deliver an id that
\* is no key of the registry.
NextConfig ==
    \/ Setup
    \/ \E r \in FieldFrames : HandResults(r)
    \/ \E t \in TemplateIds : TemplateChange(t)
    \/ \E n \in Counts : CountInput(n)
    \/ \E c \in Colors : ColorInput(c)
    \/ ResetClick
    \/ Tick

SpecConfig == Init /\ [][NextConfig]_vars

\* The classifier on every hand of ClassifyFrames: the tracker reports one
\* and the same hand in every frame of a run.
InitClassify == Constructed /\ results \in ClassifyFrames

NextClassify ==
    \/ Setup
    \/ HandResults(results)

SpecClassify == InitClassify /\ [][NextClassify]_vars

\* The reducer alone: callbacks of every label in any order, and resets.
NextReduce ==
    \/ Setup
    \/ \E r \in ReduceFrames : HandResults(r)
    \/ ResetClick

SpecReduce == Init /\ [][NextReduce]_vars

\* The rotation: point, fist, unnamed and no-hand callbacks, ticks, resets
\* and regenerations of the default template.
NextRotate ==
    \/ Setup
    \/ \E r \in RotateFrames : HandResults(r)
    \/ TemplateChange("sphere")
    \/ ResetClick
    \/ Tick

SpecRotate == Init /\ [][NextRotate]_vars

\* The generators: every template is selected, every count 1..MaxTotal
\* is set and every color is picked, in any order.
NextGenerate ==
    \/ \E t \in Templates : TemplateChange(t)
    \/ \E n \in 1..MaxTotal : CountInput(n)
    \/ \E c \in Colors : ColorInput(c)

SpecGenerate == Init /\ [][NextGenerate]_vars

-----------------------------------------------------------------------------
(* Properties *)

\* The status texts only a hand-tracking callback writes for a frame with a hand.
HandTexts == {"Expanding", "Contracting", "Rotating", "Color Shifting",
              "Hand detected"}

\* C1: after any interleaving of hand-tracking callbacks, resets, render
\* ticks and UI events, expansion lies in [0.3, 2.0] and colorShift in [0, 1).
C1_VisualStateInRange ==
    /\ gestureState.expansion >= ExpansionMin
    /\ gestureState.expansion <= ExpansionMax
    /\ gestureState.colorShift >= 0
    /\ gestureState.colorShift < ColorShiftModulus

\* C1 witness: open_hand callbacks have driven expansion to the ceiling and
\* peace callbacks have driven colorShift to the last value before the wrap.
C1_Witness ==
    /\ gestureState.expansion = ExpansionMax
    /\ gestureState.colorShift = ColorShiftModulus - 1
    /\ gestureState.detected = "open_hand"

\* The extension vector as C2 states it: thumb by x of landmarks 4 and 3,
\* finger k by y of landmarks 8+4k and 6+4k.
ClaimedExtension(landmarks) ==
    [f \in 1..5 |->
        IF f = 1
        THEN landmarks[5].x < landmarks[4].x
        ELSE landmarks[8 + 4 * (f - 2) + 1].y < landmarks[6 + 4 * (f - 2) + 1].y]

\* The label C2 assigns to each of the 32 extension vectors.
ClaimedLabel(ext) ==
    CASE \A f \in 1..5 : ext[f] -> "open_hand"
      [] \A f \in 1..5 : ~ext[f] -> "fist"
      [] ext = <<FALSE, TRUE, FALSE, FALSE, FALSE>> -> "point"
      [] ext = <<FALSE, TRUE, TRUE, FALSE, FALSE>> -> "peace"
      [] OTHER -> "unknown"

\* C2: once the callback has classified the 21-point hand of the run, the
\* label it stored is the one the claim assigns to the hand's extension vector.
C2_ClassifyByExtension ==
    statusText \in HandTexts =>
        gestureState.detected =
            ClaimedLabel(ClaimedExtension(results.multiHandLandmarks[1]))

\* C2 witness: a hand with only thumb and pinky extended was classified unknown.
C2_Witness ==
    /\ statusText = "Hand detected"
    /\ gestureState.detected = "unknown"
    /\ ClaimedExtension(results.multiHandLandmarks[1]) =
           <<TRUE, FALSE, FALSE, FALSE, TRUE>>

\* A frame that is no hand at all or whose first hand has all 21 landmarks.
WellFormed(r) == HasHand(r) => Len(r.multiHandLandmarks[1]) >= LandmarkCount

\* The label C3 gives a frame: "none" without a hand, else the classifier's.
FrameLabel(r) ==
    IF HasHand(r) THEN detectGesture(r.multiHandLandmarks[1]) ELSE "none"

\* C3 (as claimed): every hand-tracking callback leaves detected equal to
\* the frame's label, "none" for a frame without a hand.
C3_DetectedIsFrameLabel ==
    [][\A r \in FieldFrames :
          (WellFormed(r) /\ HandResults(r)) =>
              gestureState'.detected = FrameLabel(r)]_vars

\* C4 (as claimed): a callback whose hand has fewer than 21 landmarks lets
\* no exception escape, is handled as a no-hand frame and leaves expansion,
\* rotation and colorShift unchanged.
C4_ShortSampleIsNoHand ==
    [][\A r \in FieldFrames :
          (~WellFormed(r) /\ HandResults(r)) =>
              /\ uncaught' = "none"
              /\ statusText' = "No hands detected"
              /\ gestureState'.expansion = gestureState.expansion
              /\ gestureState'.rotation = gestureState.rotation
              /\ gestureState'.colorShift = gestureState.colorShift]_vars

\* The three buffers hold exactly count particles.
HoldsCount(g, count) ==
    /\ g.attrs
    /\ Len(g.position) = 3 * count
    /\ Len(g.color) = 3 * count
    /\ Len(g.size) = count

\* C5: in every state the position, color and size buffers hold exactly
\* particleCount particles (3*count, 3*count and count scalars), and a
\* render tick changes no buffer length.
C5_BuffersHoldCount ==
    /\ [](HoldsCount(particleGeometry, particleCount))
    /\ [][Tick =>
            /\ Len(particleGeometry'.position) = Len(particleGeometry.position)
            /\ Len(particleGeometry'.color) = Len(particleGeometry.color)
            /\ Len(particleGeometry'.size) = Len(particleGeometry.size)]_vars

\* C5 witness: the count was changed to MaxCount, the field regenerated and
\* a tick has since rewritten the colors of all MaxCount particles.
C5_Witness ==
    /\ particleCount = MaxCount
    /\ particleCount # InitialCount
    /\ Len(particleGeometry.size) = MaxCount
    /\ particleGeometry.color[3 * MaxCount].by = "setHSL"

\* A step of one of the three regenerating UI handlers.
RegenerationStep ==
    \/ \E t \in Templates : TemplateChange(t)
    \/ \E n \in Counts : CountInput(n)
    \/ \E c \in Colors : ColorInput(c)

\* Every entry of the buffers of g is what the fill loop writes for template
\* tpl, count particles and base color color.
GeneratedFrom(g, tpl, count, color) ==
    /\ HoldsCount(g, count)
    /\ \A k \in 1..Len(g.position) :
          /\ g.position[k].by = tpl
          /\ g.position[k].total = count
          /\ g.position[k].i = (k - 1) \div 3
          /\ ~g.position[k].drift
    /\ \A k \in 1..Len(g.color) :
          /\ g.color[k].by = "offsetHSL"
          /\ g.color[k].base = color
          /\ g.color[k].total = count
          /\ g.color[k].i = (k - 1) \div 3
    /\ \A k \in 1..Len(g.size) : g.size[k].i = k - 1

\* C6: after every template, count or base-color event the scene holds
\* exactly one particle object, the current one, with buffers generated from
\* the current template, count and base color; and in every state the scene
\* holds that one object only, laid out by the current template and count.
C6_OnlyLatestRegeneration ==
    /\ [][\/ /\ scene' = {particles'.id}
             /\ GeneratedFrom(particleGeometry', currentTemplate',
                              particleCount', baseColor')
          \/ ~RegenerationStep]_vars
    /\ [](/\ Cardinality(scene) = 1
          /\ scene = {particles.id}
          /\ \A k \in 1..Len(particleGeometry.position) :
                /\ particleGeometry.position[k].by = currentTemplate
                /\ particleGeometry.position[k].total = particleCount)

\* C6 witness: template, count and base color have all been changed, and
\* the scene holds the one object generated from the latest values.
C6_Witness ==
    /\ currentTemplate = "cube"
    /\ particleCount = MaxCount
    /\ particleCount # InitialCount
    /\ baseColor = "ff0000"
    /\ scene = {particles.id}
    /\ GeneratedFrom(particleGeometry, "cube", MaxCount, "ff0000")

\* A step of a regenerating UI handler, the template select delivering any id.
RegenerationStepAnyId ==
    \/ \E t \in TemplateIds : TemplateChange(t)
    \/ \E n \in Counts : CountInput(n)
    \/ \E c \in Colors : ColorInput(c)

C8_ResetRestoresVisualState ==
    [][ResetClick =>
          /\ gestureState' = [expansion |-> ExpansionInit, rotation |-> 0,
                              colorShift |-> 0, detected |-> "none"]
          /\ UNCHANGED fieldVars]_vars

\* C8 witness: a reset has acted after an open_hand callback: the status
\* text is still the callback's, detected is back to "none" (no callback
\* writes "none") and the numeric fields are initial.
C8_Witness ==
    /\ statusText = "Expanding"
    /\ gestureState = [expansion |-> ExpansionInit, rotation |-> 0,
                       colorShift |-> 0, detected |-> "none"]

\* C9: a render tick and every template, count or base-color event leave
\* expansion, rotation, colorShift and detected unchanged.
C9_TickAndUILeaveVisualState ==
    [][gestureState' = gestureState \/ ~(Tick \/ RegenerationStep)]_vars

\* C9 witness: with a non-initial Visual State, the template and the color
\* were changed and ticks have turned and recolored the new object.
C9_Witness ==
    /\ gestureState.rotation = MaxRotation
    /\ gestureState.detected = "point"
    /\ currentTemplate = "wave"
    /\ baseColor = "ffffff"
    /\ particles.rotationY > 0
    /\ particleGeometry.color[1].by = "setHSL"

\* C10: a failed setup is caught and reported, and is terminal: from then on
\* setup stays failed, no callback runs (the status text and the latest
\* frame never change), Visual State changes only to its initial value, and
\* ticks, UI events and reset stay enabled.
C10_FailedSetupIsTerminal ==
    /\ [][(pcSetup # "failed" /\ pcSetup' = "failed") =>
            /\ uncaught' = "none"
            /\ loadingText' = "Camera access denied"
            /\ statusText' = "Using mouse controls"]_vars
    /\ [][pcSetup = "failed" =>
            /\ pcSetup' = "failed"
            /\ statusText' = statusText
            /\ results' = results
            /\ (gestureState' # gestureState =>
                    gestureState' = initialGestureState)]_vars
    /\ [](pcSetup = "failed" =>
            /\ ENABLED Tick
            /\ ENABLED ResetClick
            /\ \A t \in Templates : ENABLED TemplateChange(t)
            /\ \A n \in Counts : ENABLED CountInput(n)
            /\ \A c \in Colors : ENABLED ColorInput(c))

\* C10 witness: after the failure a UI event has regenerated the field and
\* a tick has recolored it.
C10_Witness ==
    /\ pcSetup = "failed"
    /\ loadingText = "Camera access denied"
    /\ currentTemplate = "heart"
    /\ particleCount = MaxCount
    /\ particleGeometry.color[1].by = "setHSL"

\* C11: a callback that reports a hand leaves the Visual State that the
\* callback would leave, from the same prior state, for any frame with the
\* same first hand and arbitrary other hands after it.
C11_OnlyFirstHandConsulted ==
    [][\A r \in FieldFrames :
          (HasHand(r) /\ HandResults(r)) =>
              \A extra \in ExtraHands :
                  gestureState' =
                      onHandResults(gestureState, statusText,
                          Frame(<<r.multiHandLandmarks[1]>> \o extra)).gestureState]_vars

\* C11 witness: a frame of a pointing first hand and an open second hand
\* has been reduced as a point; expansion has not moved.
C11_Witness ==
    /\ Len(results.multiHandLandmarks) = 2
    /\ results.multiHandLandmarks[2] = Hand(OpenHandPose, LandmarkCount)
    /\ gestureState.detected = "point"
    /\ gestureState.rotation = 1
    /\ gestureState.expansion = ExpansionInit

\* C12: each render tick adds rotation * 0.01 to the applied angle, and no
\* step (tick, callback, regeneration, reset, setup) leaves the applied
\* angle smaller than it was.
C12_AppliedAngleNeverSetBack ==
    [][/\ Tick => particles'.rotationY = particles.rotationY + gestureState.rotation
       /\ particles'.rotationY >= particles.rotationY]_vars

\* C13: for each template and each count, the position buffer holds one
\* position per index 0..count-1, written by the current template, and each
\* is a finite vector: no acos argument left [-1, 1], no divisor was zero.
C13_GenerationIsFinite ==
    /\ Len(particleGeometry.position) = 3 * particleCount
    /\ \A i \in 0..(particleCount - 1) : \A axis \in 0..2 :
          LET e == particleGeometry.position[3 * i + axis + 1]
          IN  /\ e.by = currentTemplate
              /\ e.total = particleCount
              /\ e.i = i
              /\ e.axis = axis
              /\ e.finite

\* C13 witness: saturn was generated for the degenerate count 7; its last
\* particle took the planet branch with the acos argument 13/14.
C13_Witness ==
    /\ currentTemplate = "saturn"
    /\ particleCount = 7
    /\ Len(particleGeometry.position) = 21
    /\ particleGeometry.position[21].i = 6
    /\ particleGeometry.position[21].finite
    /\ ~InRing(6, 7)
    /\ PlanetAcosArg(6, 7) = <<4, 14>>

\* The label C14 speaks of for frame r: the label C2 assigns to the first
\* hand, "none" for a frame without a hand.
ClaimedFrameLabel(r) ==
    IF Len(r.multiHandLandmarks) = 0
    THEN "none"
    ELSE ClaimedLabel(ClaimedExtension(r.multiHandLandmarks[1]))

\* C14: a callback changes only the field its label names: open_hand sets
\* expansion to min(expansion + 0.02, 2.0), fist to max(expansion - 0.02,
\* 0.3), point adds 1 to rotation, peace sets colorShift to
\* (colorShift + 0.01) mod 1, unknown and no-hand change no numeric field;
\* the other numeric fields and the Particle Field stay as they are.
C14_ReductionChangesOneField ==
    [][\A r \in ReduceFrames :
          HandResults(r) =>
              LET label == ClaimedFrameLabel(r)
                  old == gestureState
                  new == gestureState'
              IN  /\ new.expansion =
                        CASE label = "open_hand" ->
                                Min(old.expansion + ExpansionStep, ExpansionMax)
                          [] label = "fist" ->
                                Max(old.expansion - ExpansionStep, ExpansionMin)
                          [] OTHER -> old.expansion
                  /\ new.rotation =
                        IF label = "point" THEN old.rotation + 1 ELSE old.rotation
                  /\ new.colorShift =
                        IF label = "peace"
                        THEN (old.colorShift + ColorShiftStep) % ColorShiftModulus
                        ELSE old.colorShift
                  /\ fieldVars' = fieldVars]_vars

\* C14 witness: fist, point and peace callbacks have each moved their own
\* field once from the initial values, and an unnamed pose came last.
C14_Witness ==
    /\ gestureState.expansion = ExpansionInit - ExpansionStep
    /\ gestureState.rotation = 1
    /\ gestureState.colorShift = ColorShiftStep
    /\ gestureState.detected = "unknown"
    /\ statusText = "Hand detected"

OpenHandFrame == Frame(<<Hand(OpenHandPose, LandmarkCount)>>)
FistFrame == Frame(<<Hand(FistPose, LandmarkCount)>>)

\* The number of 0.02 steps between expansion values a and b (rounded up).
StepsBetween(a, b) == (b - a + ExpansionStep - 1) \div ExpansionStep

\* C15: every open_hand callback below the ceiling raises expansion by
\* exactly 0.02 without passing 2.0 (1.95 becomes 1.97), at 2.0 it leaves
\* 2.0; every reachable value is at most 85 such steps below 2.0, so an
\* uninterrupted run arrives at exactly 2.0 within 85 callbacks and stays.
\* Symmetrically for fist callbacks and the floor 0.3.
C15_RunsReachTheClamp ==
    /\ [](/\ StepsBetween(gestureState.expansion, ExpansionMax) \in 0..85
          /\ StepsBetween(ExpansionMin, gestureState.expansion) \in 0..85
          /\ onHandResults([gestureState EXCEPT !.expansion = 195], statusText,
                           OpenHandFrame).gestureState.expansion = 197)
    /\ [][HandResults(OpenHandFrame) =>
            IF gestureState.expansion = ExpansionMax
            THEN gestureState'.expansion = ExpansionMax
            ELSE /\ gestureState'.expansion = gestureState.expansion + ExpansionStep
                 /\ gestureState'.expansion <= ExpansionMax]_vars
    /\ [][HandResults(FistFrame) =>
            IF gestureState.expansion = ExpansionMin
            THEN gestureState'.expansion = ExpansionMin
            ELSE /\ gestureState'.expansion = gestureState.expansion - ExpansionStep
                 /\ gestureState'.expansion >= ExpansionMin]_vars

\* C15 witness: a run of open_hand callbacks from the initial state has
\* arrived at the ceiling, no other field having moved.
C15_Witness ==
    /\ gestureState.expansion = ExpansionMax
    /\ gestureState.detected = "open_hand"
    /\ gestureState.rotation = 0
    /\ gestureState.colorShift = 0
    /\ results = OpenHandFrame

\* The position of particle i in the buffer: its three entries share parts.
PartsOf(i) == particleGeometry.position[3 * i + 1].parts

\* C16: in a flower layout every particle lies in one of the 5 layers 0..4,
\* and the layer heights are evenly spaced from -3.75 (layer 0) to +3.75
\* (layer 4): the height of layer l is -3.75 + l * 7.5 / 4.
C16_FlowerLayersSpanSymmetric ==
    currentTemplate = "flower" =>
        \A i \in 0..(particleCount - 1) :
            /\ PartsOf(i).layer \in 0..4
            /\ particleGeometry.position[3 * i + 2].axis = 1
            /\ 4 * PartsOf(i).height = 4 * (-375) + PartsOf(i).layer * 750

\* C17: in a fireworks layout every particle belongs to one of the bursts
\* 0..7, its burst center lies within +/-2 in height, and two particles of
\* the same burst have the same burst center (x and z follow from the burst
\* index, y is the draw).
C17_BurstSharesCenter ==
    currentTemplate = "fireworks" =>
        /\ \A i \in 0..(particleCount - 1) :
              /\ PartsOf(i).burstIndex \in 0..(BurstCount - 1)
              /\ PartsOf(i).centerY >= -200
              /\ PartsOf(i).centerY <= 200
        /\ \A i, j \in 0..(particleCount - 1) :
              PartsOf(i).burstIndex = PartsOf(j).burstIndex =>
                  PartsOf(i).centerY = PartsOf(j).centerY

\* The smallest integer s with s^3 >= count.
CeilCbrt(count) == CHOOSE s \in 1..count :
                      s * s * s >= count /\ (s - 1) * (s - 1) * (s - 1) < count

\* C18: in a cube layout the grid side is the integer s = ceil(cbrt(count)),
\* particle i has the integer grid coordinates (i mod s, floor(i/s) mod s,
\* floor(i/s^2)), each in 0..s-1, and distinct particles have distinct cells.
C18_CubeGridIsIntegral ==
    currentTemplate = "cube" =>
        LET s == CeilCbrt(particleCount)
        IN  /\ \A i \in 0..(particleCount - 1) :
                  /\ PartsOf(i).side = 100 * s
                  /\ PartsOf(i).cell =
                        <<100 * (i % s), 100 * ((i \div s) % s),
                          100 * (i \div (s * s))>>
                  /\ \A a \in 1..3 : PartsOf(i).cell[a] \in 0..(100 * (s - 1))
            /\ \A i, j \in 0..(particleCount - 1) :
                  i # j => PartsOf(i).cell # PartsOf(j).cell

\* C19: rotation is a non-negative integer; only a reset lowers it (no
\* callback, tick or UI event does); and while it is positive every render
\* tick increases the applied angle, whatever the latest frame was.
C19_RotationOnlyGrows ==
    /\ [](gestureState.rotation \in Nat)
    /\ [][gestureState'.rotation >= gestureState.rotation \/ ResetClick]_vars
    /\ [][(gestureState.rotation > 0 /\ Tick) =>
            particles'.rotationY > particles.rotationY]_vars

\* C19 witness: after one point gesture the hand has left the frame, no
\* reset has happened, and two ticks have turned the field since.
C19_Witness ==
    /\ gestureState.rotation = 1
    /\ gestureState.detected = "point"
    /\ results = NoHandFrame
    /\ statusText = "No hands detected"
    /\ particles.rotationY = 2

====
